---- MODULE Spec2Model ----
(***************************************************************************)
(* Model of main.py: fetch_data, calculate_indicators, analyze_performance *)
(* and the __main__ block that runs them in sequence.                      *)
(*                                                                         *)
(* A DataFrame is kept column-wise: an index (the trading dates), the      *)
(* ordered column labels, and one sequence of cells per column.  A cell is *)
(* either NaN or an exact rational, so that the rolling mean, the rolling  *)
(* standard deviation and the exponentially weighted mean are computed     *)
(* without rounding.  Volatility_50 cells hold the variance, i.e. the      *)
(* square of the standard deviation pandas stores (std = sqrt(var));       *)
(* EMA_21 cells hold numerator and denominator as arbitrary-precision      *)
(* naturals (little-endian limbs), since (1+com)^i outgrows machine ints.  *)
(***************************************************************************)
EXTENDS Integers, Sequences, FiniteSets, TLC

\* ------------------------------------------------------------------ bounds
\* Longest series the provider returns in the pipeline specification.
MaxLen == 56
\* Closing prices are drawn from 1..MaxPrice.
MaxPrice == 2
\* How far from the end of the series a missing Volume value may sit.
MaxMissBack == 3
\* Longest series of the short-series specification (all price sequences).
MaxShortLen == 5

\* ------------------------------------------------------- program constants
SMA_WINDOW == 50
EMA_COM == 21
VOL_WINDOW == 50
TAIL_ROWS == 5
ticker == "NVDA"
start == "2020-01-01"
end == "2025-01-01"

\* ------------------------------------------------------------ exact cells
Abs(x) == IF x < 0 THEN -x ELSE x

RECURSIVE GCD(_, _)
GCD(a, b) == IF b = 0 THEN a ELSE GCD(b, a % b)

NaN == [nan |-> TRUE, num |-> 0, den |-> 1]

\* The rational n/d (d > 0) in lowest terms.
Rat(n, d) ==
  LET g == GCD(Abs(n), d)
  IN  [nan |-> FALSE, num |-> n \div g, den |-> d \div g]

Num(k) == [nan |-> FALSE, num |-> k, den |-> 1]

RatAdd(x, y) ==
  LET g == GCD(x.den, y.den)
      l == (x.den \div g) * y.den
  IN  Rat(x.num * (l \div x.den) + y.num * (l \div y.den), l)

RatNeg(x) == [x EXCEPT !.num = -x.num]

RatSub(x, y) == RatAdd(x, RatNeg(y))

RatMul(x, y) ==
  LET g1 == GCD(Abs(x.num), y.den)
      g2 == GCD(Abs(y.num), x.den)
  IN  [nan |-> FALSE, num |-> (x.num \div g1) * (y.num \div g2),
       den |-> (x.den \div g2) * (y.den \div g1)]

\* x / k for an integer k > 0.
RatDivInt(x, k) == RatMul(x, [nan |-> FALSE, num |-> 1, den |-> k])

\* x / y for y > 0.
RatDiv(x, y) == RatMul(x, [nan |-> FALSE, num |-> y.den, den |-> y.num])

\* Arbitrary-precision naturals: little-endian limbs, no leading zero limb,
\* zero is <<>>.
Limb == 10^7

RECURSIVE BigOfInt(_)
BigOfInt(k) == IF k = 0 THEN <<>> ELSE <<k % Limb>> \o BigOfInt(k \div Limb)

\* a * j + b * k + carry, for small naturals j and k (a * j + b * k > 0).
RECURSIVE BigLinear(_, _, _, _, _)
BigLinear(a, j, b, k, carry) ==
  IF a = <<>> /\ b = <<>> THEN BigOfInt(carry)
  ELSE LET x == IF a = <<>> THEN 0 ELSE Head(a) * j
           y == IF b = <<>> THEN 0 ELSE Head(b) * k
           t == x + y + carry
       IN  <<t % Limb>> \o BigLinear(IF a = <<>> THEN a ELSE Tail(a), j,
                                     IF b = <<>> THEN b ELSE Tail(b), k,
                                     t \div Limb)

\* ------------------------------------------------------- pandas primitives
\* Series.rolling(window).mean(): min_periods defaults to the window size.
\* Sliding sum over the non-NaN observations of the trailing window; the
\* result is NaN while fewer than minp observations are in the window.
RollMeanRemove(st, val) ==
  IF val.nan THEN st
  ELSE [nobs |-> st.nobs - 1, sum_x |-> RatSub(st.sum_x, val)]

RollMeanAdd(st, val) ==
  IF val.nan THEN st
  ELSE [nobs |-> st.nobs + 1, sum_x |-> RatAdd(st.sum_x, val)]

RollMeanCalc(st, minp) ==
  IF st.nobs >= minp /\ st.nobs > 0 THEN RatDivInt(st.sum_x, st.nobs) ELSE NaN

RECURSIVE RollMeanLoop(_, _, _, _, _, _)
RollMeanLoop(x, window, minp, i, st, out) ==
  IF i > Len(x) THEN out
  ELSE LET s1 == IF i > window THEN RollMeanRemove(st, x[i - window]) ELSE st
           s2 == RollMeanAdd(s1, x[i])
       IN  RollMeanLoop(x, window, minp, i + 1, s2,
                        Append(out, RollMeanCalc(s2, minp)))

\* Faulty variant: the window excludes the current row (closed = "left").
rolling_mean_lagged(x, window) ==
  <<NaN>> \o SubSeq(RollMeanLoop(x, window, window, 1,
                                 [nobs |-> 0, sum_x |-> Num(0)], <<>>),
                    1, Len(x) - 1)

rolling_mean(x, window) ==
  RollMeanLoop(x, window, window, 1, [nobs |-> 0, sum_x |-> Num(0)], <<>>)

\* Series.rolling(window).std(): ddof = 1, min_periods = window.  Online
\* (Welford) update of the mean and of the sum of squared deviations.
RollVarAdd(st, val) ==
  IF val.nan THEN st
  ELSE LET n     == st.nobs + 1
           delta == RatSub(val, st.mean_x)
           m     == RatAdd(st.mean_x, RatDivInt(delta, n))
       IN  [nobs |-> n, mean_x |-> m,
            ssqdm_x |-> RatAdd(st.ssqdm_x, RatMul(delta, RatSub(val, m)))]

RollVarRemove(st, val) ==
  IF val.nan THEN st
  ELSE LET n == st.nobs - 1
       IN  IF n > 0
           THEN LET delta == RatSub(val, st.mean_x)
                    m     == RatSub(st.mean_x, RatDivInt(delta, n))
                IN  [nobs |-> n, mean_x |-> m,
                     ssqdm_x |-> RatSub(st.ssqdm_x,
                                        RatMul(delta, RatSub(val, m)))]
           ELSE [nobs |-> 0, mean_x |-> Num(0), ssqdm_x |-> Num(0)]

RollVarCalc(st, minp, ddof) ==
  IF st.nobs >= minp /\ st.nobs > ddof
  THEN IF st.nobs = 1 THEN Num(0)
       ELSE LET r == RatDivInt(st.ssqdm_x, st.nobs - ddof)
            IN  IF r.num < 0 THEN Num(0) ELSE r
  ELSE NaN

RECURSIVE RollVarLoop(_, _, _, _, _, _, _)
RollVarLoop(x, window, minp, ddof, i, st, out) ==
  IF i > Len(x) THEN out
  ELSE LET s1 == IF i > window THEN RollVarRemove(st, x[i - window]) ELSE st
           s2 == RollVarAdd(s1, x[i])
       IN  RollVarLoop(x, window, minp, ddof, i + 1, s2,
                       Append(out, RollVarCalc(s2, minp, ddof)))

RollVarInit == [nobs |-> 0, mean_x |-> Num(0), ssqdm_x |-> Num(0)]

\* Faulty variant: population standard deviation (ddof = 0).
rolling_std_ddof0(x, window) ==
  RollVarLoop(x, window, window, 0, 1, RollVarInit, <<>>)

\* The cells hold the variance; the stored standard deviation is its root.
rolling_std(x, window) ==
  RollVarLoop(x, window, window, 1, 1, RollVarInit, <<>>)

\* Series.pct_change(): x[i] / x[i-1] - 1, NaN on the first row.
pct_change(x) ==
  [i \in 1..Len(x) |->
     IF i = 1 \/ x[i].nan \/ x[i - 1].nan THEN NaN
     ELSE RatSub(RatDiv(x[i], x[i - 1]), Num(1))]

\* Series.ewm(com).mean(): adjust = True, min_periods = 0, on a column
\* without missing values (Close, as acquired).  With
\* alpha = 1/(1+com) the loop keeps weighted_avg = S/T and old_wt = T/P,
\* P = (1+com)^i:
\*   old_wt *= 1 - alpha
\*   weighted_avg = (old_wt * weighted_avg + cur) / (old_wt + 1)
\*   old_wt += 1
RECURSIVE EwmLoop(_, _, _, _, _)
EwmLoop(x, com, i, st, out) ==
  IF i > Len(x) THEN out
  ELSE LET p == IF i = 1 THEN BigOfInt(1)
                ELSE BigLinear(st.P, 1 + com, <<>>, 0, 0)
           s == BigLinear(st.S, com, p, x[i].num, 0)
           t == BigLinear(st.T, com, p, 1, 0)
       IN  EwmLoop(x, com, i + 1, [S |-> s, T |-> t, P |-> p],
                   Append(out, [nan |-> FALSE, num |-> s, den |-> t]))

\* Faulty variant: adjust = False, weighted_avg = (1-alpha)*weighted_avg + alpha*cur,
\* kept as S/P with P = (1+com)^(i-1).
RECURSIVE EwmLoopUnadjusted(_, _, _, _, _)
EwmLoopUnadjusted(x, com, i, st, out) ==
  IF i > Len(x) THEN out
  ELSE LET p == IF i = 1 THEN BigOfInt(1)
                ELSE BigLinear(st.P, 1 + com, <<>>, 0, 0)
           s == IF i = 1 THEN BigOfInt(x[i].num)
                ELSE BigLinear(st.S, com, st.P, x[i].num, 0)
       IN  EwmLoopUnadjusted(x, com, i + 1, [S |-> s, T |-> p, P |-> p],
                             Append(out, [nan |-> FALSE, num |-> s, den |-> p]))

ewm_mean_unadjusted(x, com) ==
  EwmLoopUnadjusted(x, com, 1, [S |-> <<>>, T |-> <<>>, P |-> <<>>], <<>>)

ewm_mean(x, com) ==
  EwmLoop(x, com, 1, [S |-> <<>>, T |-> <<>>, P |-> <<>>], <<>>)

\* -------------------------------------------------------------- DataFrame
Range(f) == {f[i] : i \in DOMAIN f}

\* DataFrame.empty
empty_never(df) == FALSE

empty(df) == Len(df.index) = 0

\* df[name] = col: a new label is appended after the existing columns.
setitem(df, name, col) ==
  [index   |-> df.index,
   columns |-> IF name \in Range(df.columns) THEN df.columns
               ELSE Append(df.columns, name),
   data    |-> (name :> col) @@ df.data]

\* The rows of df at the positions keep (ascending), as a new DataFrame.
take(df, keep) ==
  [index   |-> [k \in 1..Len(keep) |-> df.index[keep[k]]],
   columns |-> df.columns,
   data    |-> [c \in DOMAIN df.data |->
                  [k \in 1..Len(keep) |-> df.data[c][keep[k]]]]]

RECURSIVE NotNaPositions(_, _, _)
NotNaPositions(df, cols, i) ==
  IF i = 0 THEN <<>>
  ELSE LET rest == NotNaPositions(df, cols, i - 1)
       IN  IF \A c \in cols : ~df.data[c][i].nan THEN Append(rest, i) ELSE rest

IndicatorColumns == {"SMA_50", "EMA_21", "Volatility_50"}

\* Faulty variant: dropna(subset = the three indicator columns).
dropna_subset(df) ==
  take(df, NotNaPositions(df, IndicatorColumns \cap Range(df.columns),
                          Len(df.index)))

\* Faulty variant: dropna(how = "all") keeps a row unless every value is missing.
dropna_all(df) ==
  take(df, SelectSeq([i \in 1..Len(df.index) |-> i],
                     LAMBDA i : \E c \in Range(df.columns) : ~df.data[c][i].nan))

\* DataFrame.dropna(): axis = 0, how = "any", over every column; returns a
\* new object.
dropna(df) == take(df, NotNaPositions(df, Range(df.columns), Len(df.index)))

\* Faulty variant: head(n).
head(df, n) ==
  LET len == Len(df.index)
  IN  take(df, [k \in 1..(IF n < len THEN n ELSE len) |-> k])

\* DataFrame.tail(n): the last n rows, in their order.
tail(df, n) ==
  LET len == Len(df.index)
      cnt == IF n < len THEN n ELSE len
  IN  take(df, [k \in 1..cnt |-> len - cnt + k])

\* -------------------------------------------------------------- functions
\* Faulty variant: the indicators are computed on a copy, which is returned.
calculate_indicators_copy(h, data) ==
  LET close == h[data].data["Close"]
      d1 == setitem(h[data], "SMA_50", rolling_mean(close, SMA_WINDOW))
      d2 == setitem(d1, "EMA_21", ewm_mean(close, EMA_COM))
      d3 == setitem(d2, "Volatility_50",
                    rolling_std(pct_change(close), VOL_WINDOW))
  IN  [heap |-> Append(h, d3), ret |-> Len(h) + 1]

\* calculate_indicators(data) on the heap h: the object data is mutated in
\* place, one column assignment after the other, and data is returned.
calculate_indicators(h, data) ==
  LET close == h[data].data["Close"]
      d1 == setitem(h[data], "SMA_50", rolling_mean(close, SMA_WINDOW))
      d2 == setitem(d1, "EMA_21", ewm_mean(close, EMA_COM))
      daily_returns == pct_change(close)
      d3 == setitem(d2, "Volatility_50",
                    rolling_std(daily_returns, VOL_WINDOW))
  IN  [heap |-> [h EXCEPT ![data] = d3], ret |-> data]

\* analyze_performance(data) on the heap h: final_data is a new object, the
\* printed table is final_data.tail(5).
analyze_performance(h, data) ==
  LET final == dropna(h[data])
  IN  [heap |-> Append(h, final), final_data |-> Len(h) + 1,
       printed |-> tail(final, TAIL_ROWS)]

\* ------------------------------------------------------------------ output
FetchingLine(ticker_symbol, start_date, end_date) ==
  <<"Fetching data for ", ticker_symbol, " from ", start_date, " to ",
    end_date, "...">>
FetchedLine == <<"Data fetched successfully!">>
CalculatingLine == <<"Calculating financial indicators...">>
CalculatedLine == <<"Indicators calculated.">>
AnalysisLine == <<"\n--- Analysis Complete ---">>
DisplayingLine == <<"Displaying the last 5 days of data with indicators:">>
TableLine == <<"<final_data.tail(5)>">>
\* Faulty variant: the message names no instrument.
CouldNotDownloadLine_anonymous(t) ==
  <<"Could not download data. Please check the symbol and date range.">>
CouldNotDownloadLine(t) ==
  <<"Could not download data for ", t,
    ". Please check the symbol and date range.">>
DurationLine == <<"\nTotal execution time: ", "<duration>", " seconds.">>

\* ------------------------------------------------------------------- state
VARIABLES
  pc,          \* position in the __main__ block
  provider,    \* what yf.download does for this run: raise, or a table
  heap,        \* the DataFrame objects, by identity (position)
  stock_data,  \* __main__'s stock_data: an object identity, 0 while unbound
  stock_data_with_indicators,
  final_data,  \* analyze_performance's final_data
  stdout,      \* the lines printed so far
  shown        \* the tables printed so far

vars == <<pc, provider, heap, stock_data, stock_data_with_indicators,
          final_data, stdout, shown>>

Prices == 1..MaxPrice

\* A table as yf.download returns it: ascending dates, a positive Close on
\* every row, and Volume (standing for the other acquired columns) possibly
\* missing on row miss (0: on no row).
Frame(close, miss) ==
  [index   |-> [i \in 1..Len(close) |-> i],
   columns |-> <<"Close", "Volume">>,
   data    |-> [c \in {"Close", "Volume"} |->
                  IF c = "Close" THEN [i \in 1..Len(close) |-> Num(close[i])]
                  ELSE [i \in 1..Len(close) |->
                          IF i = miss THEN NaN ELSE Num(1000)]]]

Raises == [raises |-> TRUE, frame |-> Frame(<<>>, 0)]
Returns(df) == [raises |-> FALSE, frame |-> df]

\* Pipeline inputs: every length up to MaxLen, prices hi on every third row
\* and lo elsewhere, Volume missing on none or on one of the last rows.
PipelineProviders ==
  {Raises} \cup
  { Returns(Frame([i \in 1..n |-> IF i % 3 = 0 THEN hi ELSE lo],
                  IF back = 0 \/ back > n THEN 0 ELSE n + 1 - back)) :
      n \in 0..MaxLen, lo \in Prices, hi \in Prices, back \in 0..MaxMissBack }

RECURSIVE SeqsUpTo(_, _)
SeqsUpTo(S, n) ==
  IF n = 0 THEN {<<>>}
  ELSE LET shorter == SeqsUpTo(S, n - 1)
       IN  shorter \cup {Append(q, x) : q \in {r \in shorter : Len(r) = n - 1},
                                        x \in S}

\* Short inputs: every price sequence of length up to MaxShortLen.
ShortProviders ==
  {Raises} \cup {Returns(Frame(c, 0)) : c \in SeqsUpTo(Prices, MaxShortLen)}

InitWith(providers) ==
  /\ pc = "start"
  /\ provider \in providers
  /\ heap = <<>>
  /\ stock_data = 0
  /\ stock_data_with_indicators = 0
  /\ final_data = 0
  /\ stdout = <<>>
  /\ shown = <<>>

Init == InitWith(PipelineProviders)

InitShort == InitWith(ShortProviders)

\* ----------------------------------------------------------------- actions
\* Faulty variant: a provider exception is caught and turned into an empty table.
FetchData_swallow ==
  /\ pc = "start"
  /\ heap' = Append(heap, provider.frame)
  /\ stock_data' = Len(heap) + 1
  /\ stdout' = stdout \o <<FetchingLine(ticker, start, end), FetchedLine>>
  /\ pc' = "fetched"
  /\ UNCHANGED <<provider, stock_data_with_indicators, final_data, shown>>

\* stock_data = fetch_data(ticker, start, end); an exception raised by
\* yf.download propagates out of __main__.
FetchData ==
  /\ pc = "start"
  /\ IF provider.raises
     THEN /\ stdout' = Append(stdout, FetchingLine(ticker, start, end))
          /\ pc' = "crashed"
          /\ UNCHANGED <<heap, stock_data>>
     ELSE /\ heap' = Append(heap, provider.frame)
          /\ stock_data' = Len(heap) + 1
          /\ stdout' = stdout \o <<FetchingLine(ticker, start, end),
                                   FetchedLine>>
          /\ pc' = "fetched"
  /\ UNCHANGED <<provider, stock_data_with_indicators, final_data, shown>>

\* if not stock_data.empty:
\*     stock_data_with_indicators = calculate_indicators(stock_data)
CalculateIndicators ==
  /\ pc = "fetched"
  /\ ~empty(heap[stock_data])
  /\ \E r \in {calculate_indicators(heap, stock_data)} :
         /\ heap' = r.heap
         /\ stock_data_with_indicators' = r.ret
  /\ stdout' = stdout \o <<CalculatingLine, CalculatedLine>>
  /\ pc' = "calculated"
  /\ UNCHANGED <<provider, stock_data, final_data, shown>>

\*     analyze_performance(stock_data_with_indicators)
AnalyzePerformance ==
  /\ pc = "calculated"
  /\ \E r \in {analyze_performance(heap, stock_data_with_indicators)} :
         /\ heap' = r.heap
         /\ final_data' = r.final_data
         /\ shown' = Append(shown, r.printed)
  /\ stdout' = stdout \o <<AnalysisLine, DisplayingLine, TableLine>>
  /\ pc' = "timing"
  /\ UNCHANGED <<provider, stock_data, stock_data_with_indicators>>

\* else: print(f"Could not download data for {ticker}. ...")
CouldNotDownload ==
  /\ pc = "fetched"
  /\ empty(heap[stock_data])
  /\ stdout' = Append(stdout, CouldNotDownloadLine(ticker))
  /\ pc' = "timing"
  /\ UNCHANGED <<provider, heap, stock_data, stock_data_with_indicators,
                 final_data, shown>>

\* print(f"\nTotal execution time: {duration:.2f} seconds.")
ReportDuration ==
  /\ pc = "timing"
  /\ stdout' = Append(stdout, DurationLine)
  /\ pc' = "done"
  /\ UNCHANGED <<provider, heap, stock_data, stock_data_with_indicators,
                 final_data, shown>>

Next ==
  \/ FetchData
  \/ CalculateIndicators
  \/ AnalyzePerformance
  \/ CouldNotDownload
  \/ ReportDuration

Spec == Init /\ [][Next]_vars

SpecShort == InitShort /\ [][Next]_vars

\* ------------------------------------------------------------------ claims
\* Rows are numbered from 0 in the statements below; cell k of column c is
\* df.data[c][k + 1].
Cell(df, c, k) == df.data[c][k + 1]
NRows(df) == Len(df.index)
Defined(df, c) == {k \in 0..NRows(df) - 1 : ~Cell(df, c, k).nan}
Min(a, b) == IF a < b THEN a ELSE b
Max(a, b) == IF a > b THEN a ELSE b

\* The table calculate_indicators has just returned.
Enriched == heap[stock_data_with_indicators]

RECURSIVE SumCells(_, _, _, _)
\* Sum of column c over rows lo..hi.
SumCells(df, c, lo, hi) ==
  IF hi < lo THEN Num(0)
  ELSE IF hi = lo THEN Cell(df, c, lo)
  ELSE LET mid == (lo + hi) \div 2
       IN  RatAdd(SumCells(df, c, lo, mid), SumCells(df, c, mid + 1, hi))

\* C1: for a closing-price sequence of length n >= 50, sma50 is undefined at
\* every index below 49 and defined at every index from 49 on (n - 49 rows),
\* and each defined value is the arithmetic mean of C[i-49 .. i].
C1_Sma50IsTrailingMean ==
  (pc = "calculated" /\ NRows(Enriched) >= 50) =>
    LET df == Enriched
        n  == NRows(df)
    IN  /\ \A i \in 0..n - 1 : Cell(df, "SMA_50", i).nan <=> i < 49
        /\ Cardinality(Defined(df, "SMA_50")) = n - 49
        /\ \A i \in 49..n - 1 :
             Cell(df, "SMA_50", i) =
               RatDivInt(SumCells(df, "Close", i - 49, i), 50)

C1_Witness ==
  /\ pc = "calculated"
  /\ NRows(Enriched) >= 52
  /\ ~Cell(Enriched, "SMA_50", 49).nan
  /\ Cell(Enriched, "SMA_50", 49) # Cell(Enriched, "SMA_50", 50)

\* Single-period return r[i] = C[i]/C[i-1] - 1, for i >= 1.
Return(df, i) ==
  Rat(Cell(df, "Close", i).num - Cell(df, "Close", i - 1).num,
      Cell(df, "Close", i - 1).num)

RECURSIVE SumReturns(_, _, _)
SumReturns(df, lo, hi) ==
  IF hi < lo THEN Num(0)
  ELSE IF hi = lo THEN Return(df, lo)
  ELSE LET mid == (lo + hi) \div 2
       IN  RatAdd(SumReturns(df, lo, mid), SumReturns(df, mid + 1, hi))

RECURSIVE SumSquaredDeviations(_, _, _, _)
SumSquaredDeviations(df, lo, hi, mean) ==
  IF hi < lo THEN Num(0)
  ELSE IF hi = lo THEN LET d == RatSub(Return(df, lo), mean) IN RatMul(d, d)
  ELSE LET mid == (lo + hi) \div 2
       IN  RatAdd(SumSquaredDeviations(df, lo, mid, mean),
                  SumSquaredDeviations(df, mid + 1, hi, mean))

\* Square of the sample standard deviation (divisor 49) of r[i-49 .. i].
SampleVariance50(df, i) ==
  LET mean == RatDivInt(SumReturns(df, i - 49, i), 50)
  IN  RatDivInt(SumSquaredDeviations(df, i - 49, i, mean), 49)

\* C2: for positive prices and n >= 50, vol50 is undefined at every index
\* below 50 and defined from index 50 on (n - 50 rows), and each defined
\* value is the sample standard deviation, divisor 49, of the returns
\* r[i-49 .. i]; r[0] is never a sample.  (Cells hold the squared value.)
C2_Vol50IsSampleStd ==
  (pc = "calculated" /\ NRows(Enriched) >= 50) =>
    LET df == Enriched
        n  == NRows(df)
    IN  /\ \A i \in 0..n - 1 : Cell(df, "Volatility_50", i).nan <=> i < 50
        /\ Cardinality(Defined(df, "Volatility_50")) = n - 50
        /\ \A i \in 50..n - 1 :
             Cell(df, "Volatility_50", i) = SampleVariance50(df, i)

C2_Witness ==
  /\ pc = "calculated"
  /\ NRows(Enriched) >= 52
  /\ Cell(Enriched, "Volatility_50", 49).nan
  /\ ~Cell(Enriched, "Volatility_50", 50).nan
  /\ Cell(Enriched, "Volatility_50", 50).num > 0
  /\ Cell(Enriched, "Volatility_50", 50) # Cell(Enriched, "Volatility_50", 51)

RECURSIVE BigToInt(_)
BigToInt(a) == IF a = <<>> THEN 0 ELSE Head(a) + Limb * BigToInt(Tail(a))

\* An EMA_21 cell as a rational in lowest terms (short series only).
EmaValue(df, i) ==
  Rat(BigToInt(Cell(df, "EMA_21", i).num), BigToInt(Cell(df, "EMA_21", i).den))

\* (1 - alpha)^d for alpha = 1/(1+21).
Weight(d) == Rat(21^d, 22^d)

RECURSIVE WeightedSum(_, _, _)
\* Sum over j = 0..upto of (1 - alpha)^(i-j) * C[j].
WeightedSum(df, i, upto) ==
  IF upto < 0 THEN Num(0)
  ELSE RatAdd(WeightedSum(df, i, upto - 1),
              RatMul(Weight(i - upto), Cell(df, "Close", upto)))

RECURSIVE WeightSum(_, _)
WeightSum(i, upto) ==
  IF upto < 0 THEN Num(0)
  ELSE RatAdd(WeightSum(i, upto - 1), Weight(i - upto))

\* C3: for a non-empty closing-price sequence, ema21 is defined on every
\* row, ema21[0] = C[0], and ema21[i] is the average of C[0..i] with weight
\* (1 - alpha)^(i-j) on C[j], alpha = 1/22, divided by the sum of the
\* weights for j = 0..i.
C3_Ema21IsFiniteWeightedAverage ==
  pc = "calculated" =>
    LET df == Enriched
        n  == NRows(df)
    IN  /\ \A i \in 0..n - 1 : ~Cell(df, "EMA_21", i).nan
        /\ EmaValue(df, 0) = Cell(df, "Close", 0)
        /\ \A i \in 0..n - 1 :
             EmaValue(df, i) = RatDiv(WeightedSum(df, i, i), WeightSum(i, i))

C3_Witness ==
  /\ pc = "calculated"
  /\ NRows(Enriched) >= 3
  /\ Cell(Enriched, "Close", 1) # Cell(Enriched, "Close", 2)
  /\ EmaValue(Enriched, 2) # Cell(Enriched, "Close", 2)
  /\ EmaValue(Enriched, 2) # EmaValue(Enriched, 1)

\* The table dropna returned inside analyze_performance, once it has run.
Final == heap[final_data]
\* The table print(final_data.tail(5)) showed.
Reported == shown[1]
Acquired == provider.frame

AllDefined(df, cols, k) == \A c \in cols : ~Cell(df, c, k).nan
Dates(df) == Range(df.index)
\* Row j of a equals row k of b, column by column.
SameRow(a, j, b, k) ==
  /\ a.index[j + 1] = b.index[k + 1]
  /\ Range(a.columns) = Range(b.columns)
  /\ \A c \in Range(a.columns) : Cell(a, c, j) = Cell(b, c, k)

ReportedRowsComplete ==
  \A j \in 0..NRows(Reported) - 1 : AllDefined(Reported, IndicatorColumns, j)

C5_Original ==
  final_data # 0 =>
    \A k \in 0..NRows(Enriched) - 1 :
      (Enriched.index[k + 1] \in Dates(Final))
        <=> AllDefined(Enriched, IndicatorColumns, k)

\* C5 amended: the filter removes a row if and only if at least one of its
\* columns, acquired or computed, is undefined on it; a row whose three
\* indicators are defined is retained exactly when its acquired columns
\* are defined too, and retained rows keep their values.
C5_FilterDropsAnyMissing ==
  final_data # 0 =>
    LET cols == Range(Enriched.columns)
        kept == {k \in 0..NRows(Enriched) - 1 : AllDefined(Enriched, cols, k)}
    IN  /\ IndicatorColumns \subseteq cols
        /\ \A k \in 0..NRows(Enriched) - 1 :
             (Enriched.index[k + 1] \in Dates(Final)) <=> k \in kept
        /\ NRows(Final) = Cardinality(kept)
        /\ \A j \in 0..NRows(Final) - 1 :
             \E k \in kept : SameRow(Final, j, Enriched, k)

C5_Witness ==
  /\ final_data # 0
  /\ \E k \in 0..NRows(Enriched) - 1 :
       /\ AllDefined(Enriched, IndicatorColumns, k)
       /\ Cell(Enriched, "Volume", k).nan
       /\ Enriched.index[k + 1] \notin Dates(Final)
  /\ \E k \in 0..NRows(Enriched) - 1 : Enriched.index[k + 1] \in Dates(Final)

\* C6: if k rows survive the filter, exactly min(5, k) rows are reported,
\* they are the latest of the k rows by date, in ascending date order; with
\* k = 0 an empty table is shown and the run goes on without an error.
C6_ReportsLatestFive ==
  final_data # 0 =>
    LET k == NRows(Final)
        m == NRows(Reported)
    IN  /\ Len(shown) = 1
        /\ m = Min(5, k)
        /\ \A j \in 0..m - 1 : SameRow(Reported, j, Final, k - m + j)
        /\ \A j \in 1..m - 1 : Reported.index[j] < Reported.index[j + 1]
        /\ \A d \in Dates(Final) \ Dates(Reported) :
             \A e \in Dates(Reported) : d < e
        /\ pc \in {"timing", "done"}
        /\ pc = "timing" => ENABLED ReportDuration

C6_Witness ==
  /\ pc = "done"
  /\ final_data # 0
  /\ NRows(Final) = 6
  /\ NRows(Reported) = 5
  /\ Reported.index[1] = Final.index[2]

C6_WitnessEmpty ==
  /\ pc = "done"
  /\ final_data # 0
  /\ NRows(Acquired) = 10
  /\ NRows(Reported) = 0

IsPrefix(a, b) == Len(a) <= Len(b) /\ SubSeq(b, 1, Len(a)) = a

NoDataRun ==
  <<FetchingLine(ticker, start, end), FetchedLine,
    CouldNotDownloadLine(ticker), DurationLine>>

FullRun ==
  <<FetchingLine(ticker, start, end), FetchedLine, CalculatingLine,
    CalculatedLine, AnalysisLine, DisplayingLine, TableLine, DurationLine>>

\* C7: when acquisition returns an empty series the run never enters
\* calculate_indicators or analyze_performance, prints the no-data line,
\* then the elapsed time, and completes (until then a next step is always
\* possible); when it returns a non-empty series the events are fetch,
\* compute, report, elapsed time, each exactly once.
C7_RunOrder ==
  ~provider.raises =>
    LET expected == IF NRows(Acquired) = 0 THEN NoDataRun ELSE FullRun
    IN  /\ IsPrefix(stdout, expected)
        /\ pc = "done" => stdout = expected
        /\ pc # "crashed"
        /\ NRows(Acquired) = 0 =>
             /\ stock_data_with_indicators = 0
             /\ final_data = 0
             /\ shown = <<>>
             /\ Len(heap) <= 1
             /\ pc # "done" =>
                  ENABLED (FetchData \/ CouldNotDownload \/ ReportDuration)
        /\ (NRows(Acquired) > 0 /\ pc = "done") =>
             /\ stock_data_with_indicators # 0
             /\ final_data # 0
             /\ Len(shown) = 1

C7_Witness ==
  /\ pc = "done"
  /\ ~provider.raises
  /\ NRows(Acquired) = 0
  /\ stdout = NoDataRun

\* The line printed on an empty acquisition result.
NoDataOutcome == stdout[3]

\* C8 as stated: the no-data outcome identifies the requested instrument and
\* the requested date range (start date and end date).
C8_Original ==
  (pc = "done" /\ ~provider.raises /\ NRows(Acquired) = 0) =>
    {ticker, start, end} \subseteq Range(NoDataOutcome)

\* C8 amended: the no-data outcome identifies the requested instrument
\* only; the start and end dates appear in no part of it, and are printed
\* only by the earlier "Fetching data" line of fetch_data.
C8_NoDataNamesInstrumentOnly ==
  (pc = "done" /\ ~provider.raises /\ NRows(Acquired) = 0) =>
    /\ ticker \in Range(NoDataOutcome)
    /\ start \notin Range(NoDataOutcome)
    /\ end \notin Range(NoDataOutcome)
    /\ {ticker, start, end} \subseteq Range(stdout[1])
    /\ \A i \in 2..Len(stdout) : {start, end} \cap Range(stdout[i]) = {}

C8_Witness ==
  /\ pc = "done"
  /\ NRows(Acquired) = 0
  /\ Len(stdout) = 4
  /\ NoDataOutcome = CouldNotDownloadLine(ticker)

\* C9: if the acquisition step raises, nothing catches the exception: the
\* run ends in fatal termination with no indicator computation, no report,
\* no no-data outcome and no elapsed-time line.
C9_RaiseIsFatal ==
  provider.raises =>
    /\ pc \in {"start", "crashed"}
    /\ pc = "crashed" => ~ENABLED Next
    /\ IsPrefix(stdout, <<FetchingLine(ticker, start, end)>>)
    /\ heap = <<>>
    /\ stock_data = 0
    /\ stock_data_with_indicators = 0
    /\ final_data = 0
    /\ shown = <<>>

C9_Witness ==
  /\ provider.raises
  /\ pc = "crashed"
  /\ stdout = <<FetchingLine(ticker, start, end)>>

\* C10: calculate_indicators mutates the table it is given and returns that
\* same table, appending the three indicator columns and leaving the rows,
\* their order and every acquired value as acquired; analyze_performance
\* does not change the table, which still holds all n rows afterwards.
C10_EnrichedInPlace ==
  /\ [](stock_data_with_indicators # 0 =>
          /\ stock_data_with_indicators = stock_data
          /\ Enriched.index = Acquired.index
          /\ Enriched.columns =
               Acquired.columns \o <<"SMA_50", "EMA_21", "Volatility_50">>
          /\ \A c \in Range(Acquired.columns) :
               Enriched.data[c] = Acquired.data[c]
          /\ \A c \in IndicatorColumns : Len(Enriched.data[c]) = NRows(Acquired))
  /\ [][pc = "calculated" =>
          /\ heap'[stock_data] = heap[stock_data]
          /\ final_data' # stock_data]_vars

C10_Witness ==
  /\ pc = "done"
  /\ final_data # 0
  /\ NRows(Enriched) = 56
  /\ NRows(Final) < NRows(Enriched)
  /\ Cell(Enriched, "SMA_50", 0).nan

====
